---- MODULE Spec2Model ----
(***************************************************************************)
(* Quickstart Prompt Generator: the persisted session store                *)
(* (SessionManager / AnalysisSessionManager in src/src/cli.py) and the two *)
(* init wizards (_run_interactive_questionnaire and                        *)
(* _run_analysis_questionnaire) with their collectors.                     *)
(*                                                                         *)
(* A Python dict is a sequence of <<key, value>> pairs in insertion order. *)
(* A value is a string, or a sequence of strings for the list-valued keys. *)
(* One command runs at a time; it blocks at every prompt, and each action  *)
(* is the code that runs from one prompt to the next.  A behaviour follows *)
(* one init run, of either flow, from any of the initial store contents,   *)
(* or none; reset, status and generate run any number of times, from the   *)
(* start or after the process of an earlier command has exited.            *)
(***************************************************************************)
EXTENDS Naturals, Sequences, FiniteSets, TLC

VARIABLES
    file,             \* flow -> content of that flow's store file
    file0,            \* content of the running command's store file when it started
    pc,               \* where the running command is blocked, or how the last one ended
    cmd,              \* the command that runs, or ran last
    flow,             \* the flow that command belongs to
    session_data,     \* session.session_data of the running command
    answers,          \* answers of the running questionnaire
    current_q,        \* current_q of the running questionnaire
    reference_links,  \* reference_links of the running reference collector
    input_method,     \* input_method of the running document collector
    result,           \* what the last finished questionnaire returned to init
    signal,           \* the navigation signal the last prompt or collector produced
    written,          \* flow -> the store file's content was written by save_session
    missing,          \* the missing list of the running, or last, generate
    wrote,            \* the running, or last, command wrote the --output file
    all_default,      \* every prompt of the running init was answered with Enter
    returned,         \* the mapping get_data returned to the caller of the object
    proc,             \* the commands running side by side, one process each
    both              \* the two reference collectors, fed the same lines

vars == <<file, file0, pc, cmd, flow, session_data, answers, current_q,
          reference_links, input_method, result, signal, written, missing, wrote,
          all_default, returned, proc, both>>

(***************************************************************************)
(* Bounds                                                                  *)
(***************************************************************************)
\* longest reference list one run of a reference collector may build
MaxRefs == 2

(***************************************************************************)
(* Python dict operations                                                  *)
(***************************************************************************)
Has(d, k) == \E i \in 1..Len(d) : d[i][1] = k

Index(d, k) == CHOOSE i \in 1..Len(d) : d[i][1] = k

\* d.get(k, dflt)
Get(d, k, dflt) == IF Has(d, k) THEN d[Index(d, k)][2] ELSE dflt

\* d[k] = v : an existing key keeps its position, a new key goes last
SetItem(d, k, v) ==
    IF Has(d, k) THEN [d EXCEPT ![Index(d, k)] = <<k, v>>]
    ELSE Append(d, <<k, v>>)

\* d.update(e)
RECURSIVE DictUpdate(_, _)
DictUpdate(d, e) ==
    IF Len(e) = 0 THEN d
    ELSE DictUpdate(SetItem(d, Head(e)[1], Head(e)[2]), Tail(e))

DictKeys(d) == {d[i][1] : i \in 1..Len(d)}

\* keys whose value is a list of strings
ListKeys == {"reference_links", "improvement_focus"}

\* bool(v) for the value stored under key k
Truthy(k, v) == IF k \in ListKeys THEN Len(v) > 0 ELSE v # ""

\* any(d.values())
AnyValue(d) == \E i \in 1..Len(d) : Truthy(d[i][1], d[i][2])

(***************************************************************************)
(* str.lower() and str.strip() on the lines the model types                *)
(***************************************************************************)
Lower(s) ==
    CASE s = "Back" -> "back"
      [] s = "CANCEL" -> "cancel"
      [] OTHER -> s

Strip(s) ==
    CASE s = " " -> ""
      [] s = " back" -> "back"
      [] OTHER -> s

\* Ctrl-C or end of input at a click.prompt: click raises click.Abort
ABORT == "^C"

\* the one-character line U+00B2, superscript two
SUP2 == "^2"

\* click.prompt(text, default=dflt): an empty line yields the default
Prompt(line, dflt) == IF line = "" THEN dflt ELSE line

(***************************************************************************)
(* The store files                                                         *)
(***************************************************************************)
Flows == {"generation", "analysis"}

\* SessionManager.__init__ / AnalysisSessionManager.__init__: the default record
DefaultData(f) ==
    IF f = "generation"
    THEN << <<"sdk_name", "">>, <<"sdk_language", "">>, <<"sdk_repository", "">>,
            <<"reference_links", <<>> >>, <<"target_framework", "">>,
            <<"style_preference", "">> >>
    ELSE << <<"existing_doc_path", "">>, <<"existing_doc_content", "">>,
            <<"input_method", "">>, <<"sdk_name", "">>, <<"sdk_language", "">>,
            <<"improvement_focus", <<>> >>, <<"reference_links", <<>> >>,
            <<"style_preference", "">> >>

\* kinds of store file content:
\*   absent      no such file
\*   unreadable  the file exists, open() raises PermissionError
\*   badbytes    bytes that do not decode as text: read() raises UnicodeDecodeError
\*   garbage     text that is not JSON: json.load raises JSONDecodeError
\*   nonobject   JSON that is no object and no sequence of pairs (null, 5, [1, 2])
\*   emptyseq    the JSON documents [] and ""
\*   pairlist    a JSON array of two-element arrays, doc holds the pairs
\*   object      a JSON object, doc holds its members in order
FileOf(kind, doc) == [kind |-> kind, doc |-> doc]

Absent == FileOf("absent", <<>>)

\* os.path.exists(SESSION_FILE)
Exists(fs) == fs.kind # "absent"

\* json.dump(self.session_data, f, indent=2) into a file opened with 'w'
save_session(d) == FileOf("object", d)

\* load_session that keeps a default where the record already has the key
load_session_setdefault(f, fs) ==
    IF ~Exists(fs) THEN [raised |-> FALSE, data |-> DefaultData(f)]
    ELSE IF fs.kind \in {"unreadable", "badbytes", "nonobject"}
    THEN [raised |-> TRUE, data |-> DefaultData(f)]
    ELSE IF fs.kind = "garbage"
    THEN [raised |-> FALSE, data |-> DefaultData(f)]
    ELSE [raised |-> FALSE,
          data |-> DictUpdate(DefaultData(f),
                     SelectSeq(fs.doc, LAMBDA p : ~Has(DefaultData(f), p[1])))]

\* load_session, called on the fresh default record by __init__
load_session(f, fs) ==
    IF ~Exists(fs) THEN [raised |-> FALSE, data |-> DefaultData(f)]
    ELSE IF fs.kind \in {"unreadable", "badbytes", "nonobject"}
    THEN [raised |-> TRUE, data |-> DefaultData(f)]
    ELSE IF fs.kind = "garbage"
    THEN [raised |-> FALSE, data |-> DefaultData(f)]
    ELSE [raised |-> FALSE, data |-> DictUpdate(DefaultData(f), fs.doc)]

\* SessionManager(): __init__ builds the default record and calls load_session
NewSession(f) == load_session(f, file[f])

\* update_data that replaces the record by the keyword arguments
update_data_replace(d, kwargs) == kwargs

\* update_data(**kwargs) on the record d: self.session_data.update(kwargs)
update_data(d, kwargs) == DictUpdate(d, kwargs)

(***************************************************************************)
(* Step tables                                                             *)
(***************************************************************************)
Q(key, prompt, required) == [key |-> key, prompt |-> prompt, required |-> required]

\* the questions list of _run_interactive_questionnaire / _run_analysis_questionnaire
questions(f) ==
    IF f = "generation"
    THEN << Q("sdk_name", "plain", TRUE),
            Q("sdk_language", "plain", TRUE),
            Q("sdk_repository", "plain", FALSE),
            Q("reference_links", "reference_collection", FALSE),
            Q("target_framework", "plain", TRUE) >>
    ELSE << Q("existing_doc_input", "document_input", TRUE),
            Q("sdk_name", "plain", TRUE),
            Q("sdk_language", "plain", TRUE),
            Q("improvement_focus", "improvement_areas", FALSE),
            Q("reference_links", "reference_collection", FALSE) >>

\* questions[current_q]
question == questions(flow)[current_q + 1]

\* the value of Optional[Dict]: None, or a dict
None == [none |-> TRUE, value |-> <<>>]
Some(d) == [none |-> FALSE, value |-> d]

Max(a, b) == IF a >= b THEN a ELSE b

(***************************************************************************)
(* The lines the user types                                                *)
(***************************************************************************)
\* at a plain question
PlainLines == {"", " ", "back", "Back", "cancel", "a", ABORT}

\* at the 'Reference' prompt; "none" is a link like any other to the collector
RefLines == {"", " ", "back", "CANCEL", " back", "none", ABORT}

\* at the 'Style preference' prompt
StyleLines == {"", "1", "2", "3", SUP2, "blend", "x", "Back", "cancel", ABORT}

\* at 'Choose an option' of init
Choices == {"continue", "reset", "cancel", ABORT}

\* str.isdigit() and int() on the style lines: isdigit() is true of every
\* Unicode digit, int() raises ValueError for those that are no decimal digit
IsDigit(s) == s \in {"1", "2", "3", SUP2}

IntRaises(s) == s = SUP2

Int(s) ==
    CASE s = "1" -> 1
      [] s = "2" -> 2
      [] s = "3" -> 3
      [] OTHER -> 0

(***************************************************************************)
(* Commands: starting and ending                                           *)
(***************************************************************************)
\* the ways a command ends
Stopped == {"done", "cancelled", "aborted", "crashed", "valueerror", "reset",
            "no_session", "status", "missing", "generated"}

\* no process runs: before the first command, and after a command's process exited
Shell == {"idle", "exited"}

\* the running command is blocked inside a questionnaire
InWizard == {"prompt", "style", "doc_path", "doc_confirm", "doc_url", "doc_paste"}

\* an exception leaves the command: the process ends, nothing is written
Die(how) ==
    /\ pc' = how
    /\ signal' = "abort"
    /\ answers' = <<>>
    /\ reference_links' = <<>>
    /\ input_method' = ""
    /\ UNCHANGED <<file, file0, cmd, flow, session_data, current_q, result, written, missing, wrote>>

\* a questionnaire whose loop runs while current_q <= len(questions)
Goto_late(sig, i, ans) ==
    /\ signal' = sig
    /\ current_q' = i
    /\ answers' = ans
    /\ reference_links' = <<>>
    /\ input_method' = ""
    /\ UNCHANGED <<file0, cmd, flow, missing, wrote>>
    /\ IF i <= Len(questions(flow))
       THEN /\ pc' = "prompt"
            /\ UNCHANGED <<file, session_data, result, written>>
       ELSE /\ result' = Some(ans)
            /\ pc' = "done"
            /\ session_data' = update_data(session_data, ans)
            /\ file' = [file EXCEPT ![flow] = save_session(session_data')]
            /\ written' = [written EXCEPT ![flow] = TRUE]

\* a questionnaire that saves the answers each time it moves
Goto_persist(sig, i, ans) ==
    /\ signal' = sig
    /\ current_q' = i
    /\ answers' = ans
    /\ reference_links' = <<>>
    /\ input_method' = ""
    /\ UNCHANGED <<file0, cmd, flow, missing, wrote>>
    /\ session_data' = update_data(session_data, ans)
    /\ file' = [file EXCEPT ![flow] = save_session(session_data')]
    /\ written' = [written EXCEPT ![flow] = TRUE]
    /\ IF i < Len(questions(flow))
       THEN pc' = "prompt" /\ UNCHANGED result
       ELSE pc' = "done" /\ result' = Some(ans)

\* the questionnaire moves to question i with the answers ans; past the last
\* question it returns ans to init, which saves them: session.update_data(**answers)
\* sig is the signal that moved it: "value", "back", or "invalid" for a re-prompt
Goto(sig, i, ans) ==
    /\ signal' = sig
    /\ current_q' = i
    /\ answers' = ans
    /\ reference_links' = <<>>
    /\ input_method' = ""
    /\ UNCHANGED <<file0, cmd, flow, missing, wrote>>
    /\ IF i < Len(questions(flow))
       THEN /\ pc' = "prompt"
            /\ UNCHANGED <<file, session_data, result, written>>
       ELSE /\ result' = Some(ans)
            /\ IF Len(ans) = 0
               THEN /\ pc' = "cancelled"
                    /\ UNCHANGED <<file, session_data, written>>
               ELSE /\ pc' = "done"
                    /\ session_data' = update_data(session_data, ans)
                    /\ file' = [file EXCEPT ![flow] = save_session(session_data')]
                    /\ written' = [written EXCEPT ![flow] = TRUE]

\* a collector's 'back' that also throws the collected answers away
Back_clear == Goto("back", Max(0, current_q - 1), <<>>)

\* a 'back' that prompts the same question again
Back_stay == Goto("back", current_q, answers)

\* a collector returned 'back': current_q = max(0, current_q - 1)
Back == Goto("back", Max(0, current_q - 1), answers)

\* a cancel that saves the answers collected so far
Cancel_partial ==
    /\ pc' = "cancelled"
    /\ result' = None
    /\ signal' = "cancel"
    /\ session_data' = update_data(session_data, answers)
    /\ file' = [file EXCEPT ![flow] = save_session(session_data')]
    /\ written' = [written EXCEPT ![flow] = TRUE]
    /\ answers' = <<>>
    /\ reference_links' = <<>>
    /\ input_method' = ""
    /\ UNCHANGED <<file0, cmd, flow, current_q, missing, wrote>>

\* the questionnaire returns None and its locals are gone (current_q is kept
\* to tell where it stopped): init prints 'cancelled' and returns
Cancel ==
    /\ pc' = "cancelled"
    /\ result' = None
    /\ signal' = "cancel"
    /\ answers' = <<>>
    /\ reference_links' = <<>>
    /\ input_method' = ""
    /\ UNCHANGED <<file, file0, cmd, flow, session_data, current_q, written, missing, wrote>>

\* qpg init / qpg analyze init, up to the first prompt
StartInit(f) ==
    /\ pc = "idle"
    /\ all_default' = TRUE
    /\ UNCHANGED <<returned, proc, both>>
    /\ cmd' = "init"
    /\ flow' = f
    /\ file0' = file[f]
    /\ answers' = <<>>
    /\ current_q' = 0
    /\ reference_links' = <<>>
    /\ input_method' = ""
    /\ result' = None
    /\ signal' = "none"
    /\ missing' = <<>>
    /\ wrote' = FALSE
    /\ UNCHANGED <<file, written>>
    /\ LET s == NewSession(f) IN
       /\ session_data' = s.data
       /\ pc' = IF s.raised THEN "crashed"
                ELSE IF Exists(file[f]) /\ AnyValue(s.data) THEN "choice"
                ELSE "prompt"

\* an existing-session prompt whose reset removes the store file
Choose_remove(c) ==
    /\ pc = "choice"
    /\ all_default' = (all_default /\ c = "continue")
    /\ UNCHANGED <<returned, proc, both>>
    /\ UNCHANGED <<file0, cmd, flow, answers, current_q, reference_links,
                   input_method, result, written, missing, wrote>>
    /\ signal' = (IF c = ABORT THEN "abort" ELSE IF c = "cancel" THEN "cancel" ELSE "none")
    /\ CASE c = ABORT -> pc' = "aborted" /\ UNCHANGED <<session_data, file>>
         [] c = "cancel" -> pc' = "cancelled" /\ UNCHANGED <<session_data, file>>
         [] c = "reset" -> /\ pc' = "prompt" /\ session_data' = DefaultData(flow)
                           /\ file' = [file EXCEPT ![flow] = Absent]
         [] OTHER -> pc' = "prompt" /\ UNCHANGED <<session_data, file>>

\* the answer to 'Choose an option' of the existing-session panel
Choose(c) ==
    /\ pc = "choice"
    /\ all_default' = (all_default /\ c = "continue")
    /\ UNCHANGED <<returned, proc, both>>
    /\ UNCHANGED <<file, file0, cmd, flow, answers, current_q, reference_links,
                   input_method, result, written, missing, wrote>>
    /\ signal' = (IF c = ABORT THEN "abort" ELSE IF c = "cancel" THEN "cancel" ELSE "none")
    /\ CASE c = ABORT -> pc' = "aborted" /\ UNCHANGED session_data
         [] c = "cancel" -> pc' = "cancelled" /\ UNCHANGED session_data
         [] c = "reset" -> pc' = "prompt" /\ session_data' = DefaultData(flow)
         [] OTHER -> pc' = "prompt" /\ UNCHANGED session_data

\* a reset that writes the default record instead of removing the file
Reset_truncate(f) ==
    /\ pc \in Shell
    /\ all_default' = FALSE
    /\ UNCHANGED <<returned, proc, both>>
    /\ cmd' = "reset"
    /\ flow' = f
    /\ file0' = file[f]
    /\ pc' = "reset"
    /\ file' = [file EXCEPT ![f] = save_session(DefaultData(f))]
    /\ written' = [written EXCEPT ![f] = TRUE]
    /\ signal' = "none"
    /\ session_data' = <<>>
    /\ answers' = <<>>
    /\ current_q' = 0
    /\ reference_links' = <<>>
    /\ input_method' = ""
    /\ result' = None
    /\ missing' = <<>>
    /\ wrote' = FALSE

\* qpg reset / qpg analyze reset
Reset(f) ==
    /\ pc \in Shell
    /\ all_default' = FALSE
    /\ UNCHANGED <<returned, proc, both>>
    /\ cmd' = "reset"
    /\ flow' = f
    /\ file0' = file[f]
    /\ pc' = "reset"
    /\ file' = IF Exists(file[f]) THEN [file EXCEPT ![f] = Absent] ELSE file
    /\ written' = [written EXCEPT ![f] = FALSE]
    /\ signal' = "none"
    /\ session_data' = <<>>
    /\ answers' = <<>>
    /\ current_q' = 0
    /\ reference_links' = <<>>
    /\ input_method' = ""
    /\ result' = None
    /\ missing' = <<>>
    /\ wrote' = FALSE

\* the process of the command that ended exits: only the files remain
Exit ==
    /\ pc \in Stopped
    /\ all_default' = FALSE
    /\ UNCHANGED <<returned, proc, both>>
    /\ pc' = "exited"
    /\ cmd' = "none"
    /\ flow' = "generation"
    /\ file0' = Absent
    /\ session_data' = <<>>
    /\ answers' = <<>>
    /\ current_q' = 0
    /\ reference_links' = <<>>
    /\ input_method' = ""
    /\ result' = None
    /\ signal' = "none"
    /\ missing' = <<>>
    /\ wrote' = FALSE
    /\ UNCHANGED <<file, written>>

\* a status that saves the record it loaded
Status_save(f) ==
    /\ pc \in Shell
    /\ all_default' = FALSE
    /\ UNCHANGED <<returned, proc, both>>
    /\ cmd' = "status"
    /\ flow' = f
    /\ file0' = file[f]
    /\ LET s == NewSession(f) IN
       /\ session_data' = s.data
       /\ pc' = IF s.raised THEN "crashed"
                ELSE IF ~AnyValue(s.data) THEN "no_session"
                ELSE "status"
       /\ file' = IF s.raised THEN file ELSE [file EXCEPT ![f] = save_session(s.data)]
    /\ written' = [written EXCEPT ![f] = TRUE]
    /\ signal' = "none"
    /\ answers' = <<>>
    /\ current_q' = 0
    /\ reference_links' = <<>>
    /\ input_method' = ""
    /\ result' = None
    /\ missing' = <<>>
    /\ wrote' = FALSE

\* qpg status / qpg analyze status
Status(f) ==
    /\ pc \in Shell
    /\ all_default' = FALSE
    /\ UNCHANGED <<returned, proc, both>>
    /\ cmd' = "status"
    /\ flow' = f
    /\ file0' = file[f]
    /\ LET s == NewSession(f) IN
       /\ session_data' = s.data
       /\ pc' = IF s.raised THEN "crashed"
                ELSE IF ~AnyValue(s.data) THEN "no_session"
                ELSE "status"
    /\ UNCHANGED <<file, written>>
    /\ signal' = "none"
    /\ answers' = <<>>
    /\ current_q' = 0
    /\ reference_links' = <<>>
    /\ input_method' = ""
    /\ result' = None
    /\ missing' = <<>>
    /\ wrote' = FALSE

\* required_fields of generate / analyze_generate
required_fields(f) ==
    IF f = "generation"
    THEN <<"sdk_name", "sdk_language", "target_framework">>
    ELSE <<"existing_doc_content", "sdk_name", "sdk_language">>

\* the values of --format, and of --output ("" when the option is not given)
Formats == {"console", "markdown", "text"}
Outputs == {"", "out.md"}

\* a missing list that names every required field as soon as one is missing
Missing_all(f, data) ==
    IF \E i \in 1..Len(required_fields(f)) :
          ~(Has(data, required_fields(f)[i])
            /\ Truthy(required_fields(f)[i], Get(data, required_fields(f)[i], "")))
    THEN required_fields(f) ELSE <<>>

\* [field for field in required_fields if not data.get(field)]
Missing(f, data) ==
    SelectSeq(required_fields(f),
              LAMBDA field : ~(Has(data, field) /\ Truthy(field, Get(data, field, ""))))

\* qpg generate / qpg analyze generate
Generate(f, format, output) ==
    /\ pc \in Shell
    /\ all_default' = FALSE
    /\ UNCHANGED <<returned, proc, both>>
    /\ cmd' = "generate"
    /\ flow' = f
    /\ file0' = file[f]
    /\ LET s == NewSession(f) IN
       /\ session_data' = s.data
       /\ missing' = IF s.raised THEN <<>> ELSE Missing(f, s.data)
       /\ pc' = IF s.raised THEN "crashed"
                ELSE IF Len(missing') > 0 THEN "missing"
                ELSE "generated"
       /\ wrote' = (pc' = "generated" /\ format \in {"markdown", "text"} /\ output # "")
    /\ UNCHANGED <<file, written>>
    /\ signal' = "none"
    /\ answers' = <<>>
    /\ current_q' = 0
    /\ reference_links' = <<>>
    /\ input_method' = ""
    /\ result' = None

(***************************************************************************)
(* Plain questions                                                         *)
(***************************************************************************)
\* the default a regular question offers
default_val ==
    IF Has(session_data, question.key) THEN Get(session_data, question.key, "") ELSE ""

\* a regular question that does not check 'required'
PlainStep_noreq(line) ==
    /\ pc = "prompt"
    /\ all_default' = (all_default /\ line = "")
    /\ UNCHANGED <<returned, proc, both>>
    /\ question.prompt = "plain"
    /\ LET key == question.key
           answer == Prompt(line, default_val)
       IN  IF line = ABORT THEN Cancel
           ELSE IF Lower(answer) = "back"
           THEN IF current_q > 0 THEN Goto("back", current_q - 1, answers)
                ELSE Goto("back", current_q, answers)
           ELSE IF Lower(answer) = "cancel" THEN Cancel
           ELSE Goto("value", current_q + 1, SetItem(answers, key, Strip(answer)))

\* one pass of the while loop at a regular question
PlainStep(line) ==
    /\ pc = "prompt"
    /\ all_default' = (all_default /\ line = "")
    /\ UNCHANGED <<returned, proc, both>>
    /\ question.prompt = "plain"
    /\ LET key == question.key
           answer == Prompt(line, default_val)
       IN  IF line = ABORT THEN Cancel
           ELSE IF Lower(answer) = "back"
           THEN IF current_q > 0 THEN Goto("back", current_q - 1, answers)
                ELSE Goto("back", current_q, answers)
           ELSE IF Lower(answer) = "cancel" THEN Cancel
           ELSE IF question.required /\ Strip(answer) = ""
           THEN Goto("invalid", current_q, answers)
           ELSE Goto("value", current_q + 1, SetItem(answers, key, Strip(answer)))

(***************************************************************************)
(* Reference collector and style preference                                *)
(***************************************************************************)
\* a collector result that keeps a style preference answered earlier in the run
RefReturn_keepstyle(links, style) ==
    IF style = "back" THEN Back
    ELSE IF style = "cancel" THEN Cancel
    ELSE Goto("value", current_q + 1,
              SetItem(SetItem(answers, "reference_links", links),
                      "style_preference",
                      IF Has(answers, "style_preference")
                      THEN Get(answers, "style_preference", "") ELSE style))

\* a collector result whose style is not stored
RefReturn_linksonly(links, style) ==
    IF style = "back" THEN Back
    ELSE IF style = "cancel" THEN Cancel
    ELSE Goto("value", current_q + 1, SetItem(answers, "reference_links", links))

\* the collector returns {'links': links, 'style': style}, or a signal when
\* the style equals one
RefReturn(links, style) ==
    IF style = "back" THEN Back
    ELSE IF style = "cancel" THEN Cancel
    ELSE Goto("value", current_q + 1,
              SetItem(SetItem(answers, "reference_links", links),
                      "style_preference", style))

\* a 'Reference' prompt whose collector never falls back to the existing list
RefLine_nokeep(line) ==
    /\ pc = "prompt"
    /\ all_default' = (all_default /\ line = "")
    /\ UNCHANGED <<returned, proc, both>>
    /\ question.prompt = "reference_collection"
    /\ LET existing_refs == Get(session_data, "reference_links", <<>>)
           links == reference_links
       IN  IF line = ABORT THEN Cancel
           ELSE IF Lower(line) = "back" THEN Back
           ELSE IF Lower(line) = "cancel" THEN Cancel
           ELSE IF Strip(line) # ""
           THEN /\ Len(reference_links) < MaxRefs
                /\ reference_links' = Append(reference_links, Strip(line))
                /\ signal' = "none"
                /\ UNCHANGED <<file, file0, pc, cmd, flow, session_data, answers,
                               current_q, input_method, result, written, missing, wrote>>
           ELSE IF Len(links) > 1
           THEN /\ pc' = "style"
                /\ reference_links' = links
                /\ signal' = "none"
                /\ UNCHANGED <<file, file0, cmd, flow, session_data, answers,
                               current_q, input_method, result, written, missing, wrote>>
           ELSE IF flow = "generation"
           THEN RefReturn(links, IF Len(links) = 1 THEN links[1] ELSE "none")
           ELSE Goto("value", current_q + 1,
                     SetItem(SetItem(answers, "reference_links", links),
                             "style_preference",
                             IF Len(links) = 1 THEN links[1] ELSE "none"))

\* a 'Reference' prompt that puts the new line in front of the list
RefLine_prepend(line) ==
    /\ pc = "prompt"
    /\ all_default' = (all_default /\ line = "")
    /\ UNCHANGED <<returned, proc, both>>
    /\ question.prompt = "reference_collection"
    /\ LET existing_refs == Get(session_data, "reference_links", <<>>)
           links == IF Len(reference_links) = 0 /\ Len(existing_refs) > 0
                    THEN existing_refs ELSE reference_links
       IN  IF line = ABORT THEN Cancel
           ELSE IF Lower(line) = "back" THEN Back
           ELSE IF Lower(line) = "cancel" THEN Cancel
           ELSE IF Strip(line) # ""
           THEN /\ Len(reference_links) < MaxRefs
                /\ reference_links' = <<Strip(line)>> \o reference_links
                /\ signal' = "none"
                /\ UNCHANGED <<file, file0, pc, cmd, flow, session_data, answers,
                               current_q, input_method, result, written, missing, wrote>>
           ELSE IF Len(links) > 1
           THEN /\ pc' = "style"
                /\ reference_links' = links
                /\ signal' = "none"
                /\ UNCHANGED <<file, file0, cmd, flow, session_data, answers,
                               current_q, input_method, result, written, missing, wrote>>
           ELSE IF flow = "generation"
           THEN RefReturn(links, IF Len(links) = 1 THEN links[1] ELSE "none")
           ELSE Goto("value", current_q + 1,
                     SetItem(SetItem(answers, "reference_links", links),
                             "style_preference",
                             IF Len(links) = 1 THEN links[1] ELSE "none"))

\* one 'Reference' prompt of _collect_references_with_back or
\* _collect_analysis_references_with_back
RefLine(line) ==
    /\ pc = "prompt"
    /\ all_default' = (all_default /\ line = "")
    /\ UNCHANGED <<returned, proc, both>>
    /\ question.prompt = "reference_collection"
    /\ LET existing_refs == Get(session_data, "reference_links", <<>>)
           links == IF Len(reference_links) = 0 /\ Len(existing_refs) > 0
                    THEN existing_refs ELSE reference_links
       IN  IF line = ABORT THEN Cancel
           ELSE IF Lower(line) = "back" THEN Back
           ELSE IF Lower(line) = "cancel" THEN Cancel
           ELSE IF Strip(line) # ""
           THEN /\ Len(reference_links) < MaxRefs
                /\ reference_links' = Append(reference_links, Strip(line))
                /\ signal' = "none"
                /\ UNCHANGED <<file, file0, pc, cmd, flow, session_data, answers,
                               current_q, input_method, result, written, missing, wrote>>
           ELSE IF Len(links) > 1
           THEN /\ pc' = "style"
                /\ reference_links' = links
                /\ signal' = "none"
                /\ UNCHANGED <<file, file0, cmd, flow, session_data, answers,
                               current_q, input_method, result, written, missing, wrote>>
           ELSE IF flow = "generation"
           THEN RefReturn(links, IF Len(links) = 1 THEN links[1] ELSE "none")
           ELSE Goto("value", current_q + 1,
                     SetItem(SetItem(answers, "reference_links", links),
                             "style_preference",
                             IF Len(links) = 1 THEN links[1] ELSE "none"))

\* the 'Style preference' prompt of _get_style_preference
StyleLine(line) ==
    /\ pc = "style"
    /\ all_default' = (all_default /\ line = "")
    /\ UNCHANGED <<returned, proc, both>>
    /\ LET dflt == Get(session_data, "style_preference", "blend")
           style_choice == Prompt(line, dflt)
       IN  IF line = ABORT THEN Cancel
           ELSE IF Lower(style_choice) = "back" THEN Back
           ELSE IF Lower(style_choice) = "cancel" THEN Cancel
           ELSE IF IsDigit(style_choice) /\ IntRaises(style_choice) THEN Die("valueerror")
           ELSE IF IsDigit(style_choice) /\ 1 <= Int(style_choice)
                   /\ Int(style_choice) <= Len(reference_links)
           THEN RefReturn(reference_links, reference_links[Int(style_choice)])
           ELSE RefReturn(reference_links, "blend")

(***************************************************************************)
(* Document-ingestion collector (_get_existing_documentation_with_back)    *)
(***************************************************************************)
\* at the 'Input method' prompt
ModeLines == {"", "file", "url", "paste", "back", "cancel", ABORT}

\* at the path prompt
PathLines == {"", "doc.md", "blank.md", "missing.md", "locked.md", "back", "cancel", ABORT}

\* at 'Continue with URL input?'
ConfirmLines == {"", "y", "n", "cancel", ABORT}

\* at the URL prompt
UrlLines == {"", "http://h/p", "h/p", "//h/p", "file:///p", "Back", "cancel", ABORT}

\* what is pasted before end of input
PasteTexts == {"", " ", "text", "cancel", ABORT}

\* open(file_path).read(): the documents on disk
ReadFile(path) ==
    CASE path = "doc.md" -> [error |-> "", content |-> "text"]
      [] path = "blank.md" -> [error |-> "", content |-> " "]
      [] path = "locked.md" -> [error |-> "PermissionError", content |-> ""]
      [] OTHER -> [error |-> "FileNotFoundError", content |-> ""]

\* urlparse(url): the scheme and the netloc of the lines of the model
urlparse(url) ==
    CASE url = "http://h/p" -> [scheme |-> "http", netloc |-> "h"]
      [] url = "//h/p" -> [scheme |-> "", netloc |-> "h"]
      [] url = "file:///p" -> [scheme |-> "file", netloc |-> ""]
      [] OTHER -> [scheme |-> "", netloc |-> ""]

\* a validation that asks for a scheme only
UrlValid_scheme(url) == urlparse(url).scheme # ""

\* not (not parsed.scheme or not parsed.netloc)
UrlValid(url) == urlparse(url).scheme # "" /\ urlparse(url).netloc # ""

\* f"URL_TO_EXTRACT: {url}"
UrlContent(url) ==
    CASE url = "http://h/p" -> "URL_TO_EXTRACT: http://h/p"
      [] url = "//h/p" -> "URL_TO_EXTRACT: //h/p"
      [] url = "file:///p" -> "URL_TO_EXTRACT: file:///p"
      [] url = "h/p" -> "URL_TO_EXTRACT: h/p"
      [] url = "doc.md" -> "URL_TO_EXTRACT: doc.md"
      [] OTHER -> "URL_TO_EXTRACT: "

\* an end of the collector that returns the three keys whatever the content is
DocReturn_any(content, doc_path, method) ==
    Goto("value", current_q + 1,
         update_data(answers, << <<"existing_doc_content", content>>,
                                 <<"existing_doc_path", doc_path>>,
                                 <<"input_method", method>> >>))

\* an end of the collector that takes only the empty string as no content
DocReturn_nostrip(content, doc_path, method) ==
    IF content = "" THEN Back
    ELSE Goto("value", current_q + 1,
              update_data(answers, << <<"existing_doc_content", content>>,
                                      <<"existing_doc_path", doc_path>>,
                                      <<"input_method", method>> >>))

\* the end of the collector: blank content is 'back', else the three keys
DocReturn(content, doc_path, method) ==
    IF Strip(content) = "" THEN Back
    ELSE Goto("value", current_q + 1,
              update_data(answers, << <<"existing_doc_content", content>>,
                                      <<"existing_doc_path", doc_path>>,
                                      <<"input_method", method>> >>))

\* the collector stays at, or moves to, one of its own prompts
DocStay(where, method) ==
    /\ pc' = where
    /\ input_method' = method
    /\ signal' = "none"
    /\ UNCHANGED <<file, file0, cmd, flow, session_data, answers, current_q,
                   reference_links, result, written, missing, wrote>>

\* the 'Input method' prompt, a click.Choice of file, url, paste
DocMode(line) ==
    /\ pc = "prompt"
    /\ all_default' = (all_default /\ line = "")
    /\ UNCHANGED <<returned, proc, both>>
    /\ question.prompt = "document_input"
    /\ LET m == Prompt(line, Get(session_data, "input_method", "file"))
       IN  IF line = ABORT THEN Cancel
           ELSE IF m = "file" THEN DocStay("doc_path", m)
           ELSE IF m = "url" THEN DocStay("doc_confirm", m)
           ELSE IF m = "paste" THEN DocStay("doc_paste", m)
           ELSE DocStay("prompt", "")

\* a path prompt that asks for the path again after a failed read
DocPath_retry(line) ==
    /\ pc = "doc_path"
    /\ all_default' = (all_default /\ line = "")
    /\ UNCHANGED <<returned, proc, both>>
    /\ LET file_path == Prompt(line, Get(session_data, "existing_doc_path", ""))
           r == ReadFile(file_path)
       IN  IF line = ABORT THEN Cancel
           ELSE IF Lower(file_path) = "back" THEN Back
           ELSE IF Lower(file_path) = "cancel" THEN Cancel
           ELSE IF r.error # ""
           THEN /\ signal' = "invalid"
                /\ UNCHANGED <<file, file0, pc, cmd, flow, session_data, answers, current_q,
                               reference_links, input_method, result, written, missing, wrote>>
           ELSE DocReturn(r.content, file_path, input_method)

\* file mode: the path prompt and the read
DocPath(line) ==
    /\ pc = "doc_path"
    /\ all_default' = (all_default /\ line = "")
    /\ UNCHANGED <<returned, proc, both>>
    /\ LET file_path == Prompt(line, Get(session_data, "existing_doc_path", ""))
           r == ReadFile(file_path)
       IN  IF line = ABORT THEN Cancel
           ELSE IF Lower(file_path) = "back" THEN Back
           ELSE IF Lower(file_path) = "cancel" THEN Cancel
           ELSE IF r.error # "" THEN Back
           ELSE DocReturn(r.content, file_path, input_method)

\* url mode: click.confirm with default yes, outside every try block; an
\* answer that is neither yes nor no is asked again
DocConfirm(line) ==
    /\ pc = "doc_confirm"
    /\ all_default' = (all_default /\ line = "")
    /\ UNCHANGED <<returned, proc, both>>
    /\ IF line = ABORT THEN Die("aborted")
       ELSE IF line = "n" THEN Back
       ELSE IF line \in {"", "y"} THEN DocStay("doc_url", input_method)
       ELSE DocStay("doc_confirm", input_method)

\* url mode: the URL prompt and its validation
DocUrl(line) ==
    /\ pc = "doc_url"
    /\ all_default' = (all_default /\ line = "")
    /\ UNCHANGED <<returned, proc, both>>
    /\ LET url == Prompt(line, Get(session_data, "existing_doc_path", ""))
       IN  IF line = ABORT THEN Cancel
           ELSE IF Lower(url) = "back" THEN Back
           ELSE IF Lower(url) = "cancel" THEN Cancel
           ELSE IF ~UrlValid(url) THEN Back
           ELSE DocReturn(UrlContent(url), url, input_method)

\* paste mode: input() until EOFError
DocPaste(text) ==
    /\ pc = "doc_paste"
    /\ all_default' = FALSE
    /\ UNCHANGED <<returned, proc, both>>
    /\ IF text = ABORT THEN Cancel
       ELSE DocReturn(text, "pasted_content", input_method)

(***************************************************************************)
(* Multiple-choice collector (_get_improvement_focus_with_back)            *)
(***************************************************************************)
focus_options ==
    << "Writing Style & Tone", "Content Structure & Flow", "Code Example Quality",
       "Developer Guidance & UX", "Visual & Formatting Elements",
       "Prerequisites & Environment Setup",
       "Configuration & External Service Setup",
       "Technology Currency & Practices", "Error Prevention & Troubleshooting",
       "Completeness & Accuracy", "All of the above" >>

\* at 'Select focus areas'
FocusLines == {"", "11", "3,11", "11,3", "12,11", "1,3", "3,1", "3,3", "1,12", "12", "1,x",
               "back", "cancel", ABORT}

\* selection.split(',')
Split(s) ==
    CASE s = "3,11" -> <<"3", "11">>
      [] s = "11,3" -> <<"11", "3">>
      [] s = "12,11" -> <<"12", "11">>
      [] s = "3,3" -> <<"3", "3">>
      [] s = "1,3" -> <<"1", "3">>
      [] s = "3,1" -> <<"3", "1">>
      [] s = "1,12" -> <<"1", "12">>
      [] s = "1,x" -> <<"1", "x">>
      [] OTHER -> <<s>>

\* the tokens int() accepts
IsInt(t) == t \in {"1", "3", "11", "12"}

IntOf(t) ==
    CASE t = "1" -> 1
      [] t = "3" -> 3
      [] t = "11" -> 11
      [] t = "12" -> 12
      [] OTHER -> 0

\* a for loop that takes 11 as one more option
FocusLoop_noall(tokens, focus_areas) ==
    LET valid == SelectSeq(tokens, LAMBDA t : 1 <= IntOf(t) /\ IntOf(t) <= Len(focus_options))
    IN  focus_areas \o [i \in 1..Len(valid) |-> focus_options[IntOf(valid[i])]]

\* the for loop over selected_numbers
RECURSIVE FocusLoop(_, _)
FocusLoop(tokens, focus_areas) ==
    IF Len(tokens) = 0 THEN focus_areas
    ELSE LET num == IntOf(Head(tokens)) IN
         IF 1 <= num /\ num <= Len(focus_options)
         THEN IF num = 11 THEN SubSeq(focus_options, 1, Len(focus_options) - 1)
              ELSE FocusLoop(Tail(tokens), Append(focus_areas, focus_options[num]))
         ELSE FocusLoop(Tail(tokens), focus_areas)

\* the 'Select focus areas' prompt and the parse of the entry
FocusLine(line) ==
    /\ pc = "prompt"
    /\ all_default' = (all_default /\ line = "")
    /\ UNCHANGED <<returned, proc, both>>
    /\ question.prompt = "improvement_areas"
    /\ LET existing_focus == Get(session_data, "improvement_focus", <<>>)
           selection == Prompt(line, IF Len(existing_focus) = 0 THEN "11" ELSE "")
           tokens == Split(selection)
           focus_areas == FocusLoop(tokens, <<>>)
       IN  IF line = ABORT THEN Cancel
           ELSE IF Lower(selection) = "back" THEN Back
           ELSE IF Lower(selection) = "cancel" THEN Cancel
           ELSE IF \E i \in 1..Len(tokens) : ~IsInt(tokens[i]) THEN Back
           ELSE IF Len(focus_areas) = 0 THEN Back
           ELSE Goto("value", current_q + 1, SetItem(answers, "improvement_focus", focus_areas))

(***************************************************************************)
(* Initial store files and the specification of the commands               *)
(***************************************************************************)
Pairs6(name, lang, repo, refs, target, style) ==
    << <<"sdk_name", name>>, <<"sdk_language", lang>>, <<"sdk_repository", repo>>,
       <<"reference_links", refs>>, <<"target_framework", target>>,
       <<"style_preference", style>> >>

Pairs8(path, content, method, name, lang, focus, refs, style) ==
    << <<"existing_doc_path", path>>, <<"existing_doc_content", content>>,
       <<"input_method", method>>, <<"sdk_name", name>>, <<"sdk_language", lang>>,
       <<"improvement_focus", focus>>, <<"reference_links", refs>>,
       <<"style_preference", style>> >>

\* contents the store file of flow f can have when a command starts
StoreSeq(f) ==
    << Absent,
       FileOf("unreadable", <<>>),
       FileOf("badbytes", <<>>),
       FileOf("garbage", <<>>),
       FileOf("nonobject", <<>>),
       FileOf("pairlist", << <<"sdk_name", "a">> >>),
       FileOf("object", << <<"sdk_name", "b">>, <<"note", "a">> >>),
       IF f = "generation"
       THEN FileOf("object", Pairs6("a", "b", "", <<>>, "a", "none"))
       ELSE FileOf("object", Pairs8("doc.md", "text", "file", "a", "b",
                                    <<focus_options[1]>>, <<"a">>, "a")),
       IF f = "generation"
       THEN FileOf("object", Pairs6("b", "a", "a", <<"a", "b">>, "b", "b"))
       ELSE FileOf("object", Pairs8("http://h/p", "URL_TO_EXTRACT: http://h/p", "url",
                                    "b", "a", <<focus_options[3], focus_options[1]>>,
                                    <<"a", "b">>, "blend")) >>

\* no mapping has been handed out by get_data
NoMapping == [has |-> FALSE, map |-> <<>>, shared |-> {}]

\* the processes that run commands side by side in one working directory
Procs == {1, 2}

\* a process that has not run a command
NoCommand ==
    [cmd |-> "none", flow |-> "generation", at |-> "idle", data |-> <<>>, unlinked |-> FALSE]

\* a collector that has not returned
NoReturn == [signal |-> "none", links |-> <<>>, style |-> ""]

\* a collector at its first 'Reference' prompt: reference_links = []
Collecting == [at |-> "lines", links |-> <<>>, ret |-> NoReturn]

\* no collector runs
NoRun ==
    [existing_refs |-> <<>>, style_preference |-> "",
     generation |-> [at |-> "idle", links |-> <<>>, ret |-> NoReturn],
     analysis |-> [at |-> "idle", links |-> <<>>, ret |-> NoReturn]]

\* the two store files start with content of the same kind
Init ==
    /\ \E i \in 1..Len(StoreSeq("generation")) : file = [f \in Flows |-> StoreSeq(f)[i]]
    /\ file0 = Absent
    /\ pc = "idle"
    /\ cmd = "none"
    /\ flow = "generation"
    /\ session_data = <<>>
    /\ answers = <<>>
    /\ current_q = 0
    /\ reference_links = <<>>
    /\ input_method = ""
    /\ result = None
    /\ signal = "none"
    /\ written = [f \in Flows |-> FALSE]
    /\ missing = <<>>
    /\ wrote = FALSE
    /\ all_default = FALSE
    /\ returned = NoMapping
    /\ proc = [p \in Procs |-> NoCommand]
    /\ both = NoRun

Next ==
    \/ \E f \in Flows : StartInit(f)
    \/ \E c \in Choices : Choose(c)
    \/ Exit
    \/ \E f \in Flows : Reset(f)
    \/ \E f \in Flows : Status(f)
    \/ \E f \in Flows, format \in Formats, output \in Outputs : Generate(f, format, output)
    \/ \E line \in PlainLines : PlainStep(line)
    \/ \E line \in RefLines : RefLine(line)
    \/ \E line \in StyleLines : StyleLine(line)
    \/ \E line \in ModeLines : DocMode(line)
    \/ \E line \in PathLines : DocPath(line)
    \/ \E line \in ConfirmLines : DocConfirm(line)
    \/ \E line \in UrlLines : DocUrl(line)
    \/ \E text \in PasteTexts : DocPaste(text)
    \/ \E line \in FocusLines : FocusLine(line)

Spec == Init /\ [][Next]_vars

(***************************************************************************)
(* The session manager used as an object, as the unit tests do             *)
(***************************************************************************)
\* keyword arguments of update_data
Kwargs ==
    { << <<"sdk_name", "a">> >>,
      << <<"sdk_name", "b">>, <<"sdk_language", "a">> >>,
      << <<"sdk_language", "">> >>,
      << <<"reference_links", <<"a", "b">> >> >>,
      << <<"note", "a">> >>,
      <<>> }

\* session = SessionManager() or AnalysisSessionManager(); a behaviour uses
\* the class of one flow
Construct(f) ==
    /\ pc = "idle"
    /\ UNCHANGED <<all_default, proc, both>>
    /\ returned' = NoMapping
    /\ cmd = "none" \/ f = flow
    /\ cmd' = "new"
    /\ flow' = f
    /\ file0' = file[f]
    /\ LET s == NewSession(f) IN
       /\ session_data' = s.data
       /\ pc' = IF s.raised THEN "crashed" ELSE "ready"
    /\ UNCHANGED <<file, answers, current_q, reference_links, input_method,
                   result, signal, written, missing, wrote>>

\* session.update_data(**kwargs)
UpdateData(kwargs) ==
    /\ pc = "ready"
    /\ UNCHANGED <<all_default, returned, proc, both>>
    /\ cmd' = "update_data"
    /\ session_data' = update_data(session_data, kwargs)
    /\ file' = [file EXCEPT ![flow] = save_session(session_data')]
    /\ written' = [written EXCEPT ![flow] = TRUE]
    /\ UNCHANGED <<file0, pc, flow, answers, current_q, reference_links,
                   input_method, result, signal, missing, wrote>>

\* session.save_session()
SaveSession ==
    /\ pc = "ready"
    /\ UNCHANGED <<all_default, returned, proc, both>>
    /\ cmd' = IF cmd = "new" THEN "save_after_load" ELSE "save_session"
    /\ file' = [file EXCEPT ![flow] = save_session(session_data)]
    /\ written' = [written EXCEPT ![flow] = TRUE]
    /\ UNCHANGED <<file0, pc, flow, session_data, answers, current_q,
                   reference_links, input_method, result, signal, missing, wrote>>

\* the object goes out of scope
Discard ==
    /\ pc \in {"ready", "crashed", "holding"}
    /\ UNCHANGED <<all_default, proc, both>>
    /\ returned' = NoMapping
    /\ pc' = "idle"
    /\ cmd' = "del"
    /\ session_data' = <<>>
    /\ UNCHANGED <<file, file0, flow, answers, current_q, reference_links,
                   input_method, result, signal, written, missing, wrote>>

\* data = session.get_data(): return self.session_data.copy(), a new dict whose
\* values are the objects session_data holds; the list values are shared.
\* The caller works on the mapping before it uses the object again.
GetData ==
    /\ pc = "ready"
    /\ pc' = "holding"
    /\ cmd' = "get_data"
    /\ returned' = [has |-> TRUE, map |-> session_data,
                    shared |-> DictKeys(session_data) \cap ListKeys]
    /\ UNCHANGED <<file, file0, flow, session_data, answers, current_q,
                   reference_links, input_method, result, signal, written, missing,
                   wrote, all_default, proc, both>>

\* values the caller assigns to keys of the returned mapping
Assigned == { <<"sdk_name", "modified">>, <<"reference_links", <<"c">> >> }

\* data[key] = value on the returned mapping
SetKey(key, value) ==
    /\ pc = "holding"
    /\ cmd' = "setitem"
    /\ returned' = [returned EXCEPT !.map = SetItem(@, key, value),
                                    !.shared = @ \ {key}]
    /\ UNCHANGED <<file, file0, pc, flow, session_data, answers, current_q,
                   reference_links, input_method, result, signal, written, missing,
                   wrote, all_default, proc, both>>

\* data[key].append(link) on the returned mapping: the list object changes,
\* and with it every mapping that holds the same object
AppendTo(key, link) ==
    /\ pc = "holding"
    /\ key \in ListKeys /\ Has(returned.map, key)
    /\ Len(Get(returned.map, key, <<>>)) < MaxRefs
    /\ cmd' = "append"
    /\ returned' = [returned EXCEPT
                      !.map = SetItem(@, key, Append(Get(@, key, <<>>), link))]
    /\ session_data' = IF key \in returned.shared
                       THEN SetItem(session_data, key,
                                    Append(Get(session_data, key, <<>>), link))
                       ELSE session_data
    /\ UNCHANGED <<file, file0, pc, flow, answers, current_q, reference_links,
                   input_method, result, signal, written, missing, wrote,
                   all_default, proc, both>>

NextStore ==
    \/ \E f \in Flows : Construct(f)
    \/ \E kwargs \in Kwargs : UpdateData(kwargs)
    \/ SaveSession
    \/ Discard
    \/ GetData
    \/ \E kv \in Assigned : SetKey(kv[1], kv[2])
    \/ \E key \in ListKeys : AppendTo(key, "c")

SpecStore == Init /\ [][NextStore]_vars

(***************************************************************************)
(* Commands of both flows running side by side                             *)
(***************************************************************************)
\* the variables of the single command and of the session object
single == <<file0, pc, cmd, flow, session_data, answers, current_q, reference_links,
            input_method, result, signal, written, missing, wrote, all_default,
            returned, both>>

\* a shell is free to start a command in process p
Free(p) == proc[p].at \in {"idle", "exited", "crashed"}

\* answers a completed questionnaire of flow f returns
ProcAnswers(f) == <<StoreSeq(f)[8].doc, StoreSeq(f)[9].doc>>

\* qpg init / qpg analyze init up to its first prompt
ProcInit(p, f) ==
    /\ Free(p)
    /\ LET s == NewSession(f) IN
       proc' = [proc EXCEPT ![p] =
                  [cmd |-> "init", flow |-> f,
                   at |-> IF s.raised THEN "crashed"
                          ELSE IF Exists(file[f]) /\ AnyValue(s.data) THEN "choice"
                          ELSE "wizard",
                   data |-> IF s.raised THEN <<>> ELSE s.data,
                   unlinked |-> FALSE]]
    /\ UNCHANGED <<file, single>>

\* the answer to 'Choose an option' in process p
ProcChoose(p, c) ==
    /\ proc[p].at = "choice"
    /\ proc' = [proc EXCEPT ![p] =
                  CASE c \in {"cancel", ABORT} ->
                         [proc[p] EXCEPT !.at = "exited", !.data = <<>>]
                    [] c = "reset" ->
                         [proc[p] EXCEPT !.at = "wizard", !.data = DefaultData(proc[p].flow)]
                    [] OTHER -> [proc[p] EXCEPT !.at = "wizard"]]
    /\ UNCHANGED <<file, single>>

\* the questionnaire of process p returns None: cancel or Ctrl-C at a prompt
ProcCancel(p) ==
    /\ proc[p].at = "wizard"
    /\ proc' = [proc EXCEPT ![p] = [proc[p] EXCEPT !.at = "exited", !.data = <<>>]]
    /\ UNCHANGED <<file, single>>

\* len(s) for the keys and values the store files can hold
StrLen(s) ==
    CASE s = "" -> 0
      [] s \in {"a", "b"} -> 1
      [] s \in {"url"} -> 3
      [] s \in {"none", "note", "text", "file"} -> 4
      [] s \in {"blend"} -> 5
      [] s \in {"doc.md"} -> 6
      [] s \in {"sdk_name"} -> 8
      [] s \in {"http://h/p"} -> 10
      [] s \in {"sdk_language", "input_method"} -> 12
      [] s \in {"sdk_repository"} -> 14
      [] s \in {"reference_links"} -> 15
      [] s \in {"target_framework", "style_preference"} -> 16
      [] s \in {"existing_doc_path", "improvement_focus"} -> 17
      [] s \in {"existing_doc_content", focus_options[1], focus_options[3]} -> 20
      [] s \in {"URL_TO_EXTRACT: http://h/p"} -> 26

\* the characters json.dump(..., indent=2) writes for the items of a list, each
\* on a line of its own behind four spaces
RECURSIVE ItemsLen(_)
ItemsLen(v) == IF Len(v) = 0 THEN 0 ELSE StrLen(Head(v)) + 6 + ItemsLen(Tail(v))

\* ... for a value: a string in quotes, [] or a list over several lines
ValueLen(k, v) ==
    IF k \notin ListKeys THEN StrLen(v) + 2
    ELSE IF Len(v) = 0 THEN 2
    ELSE 2 + ItemsLen(v) + 2 * (Len(v) - 1) + 4

\* ... for the entries of a dict, each behind two spaces
RECURSIVE EntriesLen(_)
EntriesLen(d) ==
    IF Len(d) = 0 THEN 0
    ELSE StrLen(Head(d)[1]) + 6 + ValueLen(Head(d)[1], Head(d)[2]) + EntriesLen(Tail(d))

\* the size of the file json.dump(d, f, indent=2) writes
JsonLen(d) == IF Len(d) = 0 THEN 2 ELSE 2 + EntriesLen(d) + 2 * (Len(d) - 1) + 2

\* open(SESSION_FILE, 'w'): the file exists and is empty
Truncated == FileOf("garbage", <<>>)

\* the file after the text of json.dump(d) went to the start of a file whose
\* content is fs: the file was empty when this writer opened it, so content
\* in it is of a writer that opened it too; what is longer than the new text
\* stays behind it, and the file is no JSON text
Overwrite(fs, d) ==
    IF fs.kind = "object" /\ JsonLen(fs.doc) > JsonLen(d) THEN FileOf("garbage", <<>>)
    ELSE save_session(d)

\* a save that also opens the store of the other flow for writing
ProcDone_both(p, n) ==
    /\ proc[p].at = "wizard"
    /\ file' = [f \in Flows |-> Truncated]
    /\ proc' = [proc EXCEPT ![p] =
                  [proc[p] EXCEPT
                     !.at = "saving",
                     !.data = update_data(proc[p].data, ProcAnswers(proc[p].flow)[n])]]
    /\ UNCHANGED single

\* the questionnaire of process p returns its answers, the n-th of the
\* answer records: session.update_data(**answers) updates session_data and
\* save_session opens the store file for writing
ProcDone(p, n) ==
    /\ proc[p].at = "wizard"
    /\ file' = [file EXCEPT ![proc[p].flow] = Truncated]
    /\ proc' = [proc EXCEPT ![p] =
                  [proc[p] EXCEPT
                     !.at = "saving",
                     !.data = update_data(proc[p].data, ProcAnswers(proc[p].flow)[n])]]
    /\ UNCHANGED single

\* save_session of process p writes the text and closes the file, and init
\* returns; the text goes to the file that was opened, which a reset may have
\* removed from the directory since
ProcWrite(p) ==
    /\ proc[p].at = "saving"
    /\ file' = IF proc[p].unlinked THEN file
               ELSE [file EXCEPT ![proc[p].flow] = Overwrite(@, proc[p].data)]
    /\ proc' = [proc EXCEPT ![p] =
                  [proc[p] EXCEPT !.at = "exited", !.data = <<>>, !.unlinked = FALSE]]
    /\ UNCHANGED single

\* qpg reset / qpg analyze reset in process p: os.remove takes the name away,
\* and a process that has the file open keeps writing to the nameless file
ProcReset(p, f) ==
    /\ Free(p)
    /\ file' = IF Exists(file[f]) THEN [file EXCEPT ![f] = Absent] ELSE file
    /\ proc' = [q \in Procs |->
                  IF q = p
                  THEN [cmd |-> "reset", flow |-> f, at |-> "exited", data |-> <<>>,
                        unlinked |-> FALSE]
                  ELSE IF proc[q].at = "saving" /\ proc[q].flow = f /\ Exists(file[f])
                  THEN [proc[q] EXCEPT !.unlinked = TRUE]
                  ELSE proc[q]]
    /\ UNCHANGED single

\* qpg status, qpg generate and their analyze forms in process p: the store
\* is read by the constructor and never written (the --output file of generate
\* is a file of its own)
ProcRead(p, c, f) ==
    /\ Free(p)
    /\ proc' = [proc EXCEPT ![p] =
                  [cmd |-> c, flow |-> f,
                   at |-> IF NewSession(f).raised THEN "crashed" ELSE "exited",
                   data |-> <<>>, unlinked |-> FALSE]]
    /\ UNCHANGED <<file, single>>

NextProcs ==
    \/ \E p \in Procs, f \in Flows : ProcInit(p, f)
    \/ \E p \in Procs, c \in Choices : ProcChoose(p, c)
    \/ \E p \in Procs : ProcCancel(p)
    \/ \E p \in Procs, n \in 1..2 : ProcDone(p, n)
    \/ \E p \in Procs : ProcWrite(p)
    \/ \E p \in Procs, f \in Flows : ProcReset(p, f)
    \/ \E p \in Procs, c \in {"status", "generate"}, f \in Flows : ProcRead(p, c, f)

SpecProcs == Init /\ [][NextProcs]_vars

(***************************************************************************)
(* The two reference collectors, side by side on the same input            *)
(***************************************************************************)
\* what a collector has returned: a signal, or the links and the style
Returned(sig, links, style) ==
    [at |-> "returned", links |-> <<>>,
     ret |-> [signal |-> sig, links |-> links, style |-> style]]

\* the existing_refs a collector is called with
ExistingRefs == {<<>>, <<"none">>, <<"none", "back">>}

\* session_data['style_preference'] when a collector is called
StoredStyles == {"", "blend", "back"}

\* what a collector does with the return value of _get_style_preference
StyleSignal(links, style) ==
    IF style = "back" THEN Returned("back", <<>>, "")
    ELSE IF style = "cancel" THEN Returned("cancel", <<>>, "")
    ELSE Returned("value", links, style)

\* one 'Reference' prompt of the collector of flow f, and what follows an
\* empty line
CollectLine(f, existing_refs, c, line) ==
    IF line = ABORT THEN Returned("cancel", <<>>, "")
    ELSE IF Lower(line) = "back" THEN Returned("back", <<>>, "")
    ELSE IF Lower(line) = "cancel" THEN Returned("cancel", <<>>, "")
    ELSE IF Strip(line) # "" THEN [c EXCEPT !.links = Append(@, Strip(line))]
    ELSE LET links == IF Len(c.links) = 0 /\ Len(existing_refs) > 0
                      THEN existing_refs ELSE c.links
         IN  IF Len(links) > 1
             THEN [at |-> "style", links |-> links, ret |-> NoReturn]
             ELSE IF f = "generation"
             THEN StyleSignal(links, IF Len(links) = 1 THEN links[1] ELSE "none")
             ELSE Returned("value", links, IF Len(links) = 1 THEN links[1] ELSE "none")

\* the 'Style preference' prompt of _get_style_preference, called by either
\* collector with more than one link
CollectStyle(stored, c, line) ==
    LET style_choice == Prompt(line, stored)
    IN  IF line = ABORT THEN StyleSignal(c.links, "cancel")
        ELSE IF Lower(style_choice) = "back" THEN StyleSignal(c.links, "back")
        ELSE IF Lower(style_choice) = "cancel" THEN StyleSignal(c.links, "cancel")
        ELSE IF IsDigit(style_choice) /\ IntRaises(style_choice)
        THEN Returned("valueerror", <<>>, "")
        ELSE IF IsDigit(style_choice) /\ 1 <= Int(style_choice)
                /\ Int(style_choice) <= Len(c.links)
        THEN StyleSignal(c.links, c.links[Int(style_choice)])
        ELSE StyleSignal(c.links, "blend")

\* both collectors are called with the same list and the same stored style
BothStart(refs, style) ==
    /\ both.generation.at = "idle"
    /\ both' = [existing_refs |-> refs, style_preference |-> style,
                generation |-> Collecting, analysis |-> Collecting]
    /\ UNCHANGED <<file, proc>>
    /\ UNCHANGED <<file0, pc, cmd, flow, session_data, answers, current_q,
                 reference_links, input_method, result, signal, written,
                 missing, wrote, all_default, returned>>

\* the same line is entered at the 'Reference' prompt of both
BothLine(line) ==
    /\ both.generation.at = "lines"
    /\ both.analysis.at = "lines"
    /\ (Strip(line) # "" /\ Lower(line) \notin {"back", "cancel"} /\ line # ABORT)
          => Len(both.generation.links) < MaxRefs
    /\ both' = [both EXCEPT
           !.generation = CollectLine("generation", both.existing_refs, @, line),
           !.analysis = CollectLine("analysis", both.existing_refs, @, line)]
    /\ UNCHANGED <<file, proc>>
    /\ UNCHANGED <<file0, pc, cmd, flow, session_data, answers, current_q,
                 reference_links, input_method, result, signal, written,
                 missing, wrote, all_default, returned>>

\* the same line is entered at the 'Style preference' prompt of both
BothStyle(line) ==
    /\ both.generation.at = "style"
    /\ both.analysis.at = "style"
    /\ both' = [both EXCEPT
           !.generation = CollectStyle(both.style_preference, @, line),
           !.analysis = CollectStyle(both.style_preference, @, line)]
    /\ UNCHANGED <<file, proc>>
    /\ UNCHANGED <<file0, pc, cmd, flow, session_data, answers, current_q,
                 reference_links, input_method, result, signal, written,
                 missing, wrote, all_default, returned>>

NextRefs ==
    \/ \E refs \in ExistingRefs, style \in StoredStyles : BothStart(refs, style)
    \/ \E line \in RefLines : BothLine(line)
    \/ \E line \in StyleLines : BothStyle(line)

\* the collectors read no file: no store file exists
InitRefs == Init /\ \A f \in Flows : file[f] = Absent

SpecRefs == InitRefs /\ [][NextRefs]_vars

(***************************************************************************)
(* Properties                                                              *)
(***************************************************************************)
\* every pair of e is in d with the same value
HoldsAll(d, e) ==
    \A i \in 1..Len(e) : Has(d, e[i][1]) /\ Get(d, e[i][1], e[i][2]) = e[i][2]

\* an init questionnaire is running
Running == cmd = "init" /\ pc \in InWizard

\* the record a session manager constructed now would load from the store of flow f
Stored(f) == load_session(f, file[f]).data

C2_CancelLeavesStore ==
    (cmd = "init" /\ pc = "cancelled") => (result = None /\ file[flow] = file0)

C2_Witness ==
    /\ cmd = "init" /\ pc = "cancelled" /\ signal = "cancel"
    /\ current_q >= 2
    /\ file0.kind = "object" /\ file[flow] = file0

\* the answer keys a finished questionnaire of flow f produces
AnswerKeys(f) ==
    IF f = "generation"
    THEN {"sdk_name", "sdk_language", "sdk_repository", "reference_links",
          "style_preference", "target_framework"}
    ELSE {"existing_doc_content", "existing_doc_path", "input_method", "sdk_name",
          "sdk_language", "improvement_focus", "reference_links", "style_preference"}

\* the answer keys the step of question q writes
StepKeys(q) ==
    CASE q.prompt = "reference_collection" -> {"reference_links", "style_preference"}
      [] q.prompt = "document_input" ->
            {"existing_doc_content", "existing_doc_path", "input_method"}
      [] OTHER -> {q.key}

\* the entry of key k differs between the answers before and after a step
EntryChanged(k) ==
    \/ ~Has(answers, k)
    \/ ~Has(answers', k)
    \/ answers'[Index(answers', k)][2] # answers[Index(answers, k)][2]

\* C3: when the wizard is DONE the cursor is len(steps), the answers hold
\* exactly the answer keys of the flow, and this mapping is the one returned
\* to init and the one the store file now holds; an entry of the answers is
\* written only by a step that accepts a value at the question of its key, so
\* each entry is the last value accepted for its key
C3_DoneMapping ==
    /\ []((cmd = "init" /\ pc = "done") =>
            /\ current_q = Len(questions(flow))
            /\ DictKeys(answers) = AnswerKeys(flow)
            /\ result = Some(answers)
            /\ file[flow].kind = "object"
            /\ HoldsAll(file[flow].doc, answers))
    /\ [][(Running /\ pc' \in InWizard \cup {"done"}) =>
            \A k \in DictKeys(answers) \cup DictKeys(answers') :
               EntryChanged(k) =>
                  (signal' = "value" /\ current_q' = current_q + 1
                   /\ k \in StepKeys(question))]_vars

C3_Witness ==
    /\ cmd = "init" /\ pc = "done" /\ flow = "generation"
    /\ Cardinality(DictKeys(answers)) = 6
    /\ Get(answers, "sdk_name", "") = "a"
    /\ Get(answers, "reference_links", <<>>) = <<"none", "back">>
    /\ Get(answers, "style_preference", "") = "blend"
    /\ Get(file[flow].doc, "style_preference", "") = "blend"

\* C4: a BACK signal at step i moves the cursor to i - 1, or leaves it at 0,
\* and the step the cursor is on is prompted again
C4_BackMovesCursor ==
    [][(Running /\ signal' = "back") =>
         (current_q' = Max(0, current_q - 1) /\ pc' = "prompt" /\ answers' = answers)]_vars

C4_Witness ==
    /\ Running /\ signal = "back" /\ current_q = 0 /\ Len(answers) >= 4

\* C5: when BACK has re-entered a plain question whose key was answered
\* earlier in this run, the default offered is the value entered in this run
C5_BackOffersEnteredValue ==
    (Running /\ pc = "prompt" /\ signal = "back" /\ question.prompt = "plain"
       /\ Has(answers, question.key))
        => default_val = Get(answers, question.key, "")

\* C6: a blank value at a required plain question leaves the cursor and the
\* answers as they are and the same question is prompted again; a required
\* key in the answers is never blank
C6_RequiredBlankReprompts ==
    [][\A line \in PlainLines \ {ABORT} :
         (PlainStep(line) /\ question.required /\ Strip(Prompt(line, default_val)) = "")
            => (current_q' = current_q /\ answers' = answers /\ pc' = "prompt"
                /\ signal' = "invalid")]_vars

C6_Witness ==
    /\ Running /\ signal = "invalid" /\ pc = "prompt" /\ current_q = 4
    /\ flow = "generation" /\ ~Has(answers, "target_framework")

\* C7: constructing the session manager completes whatever the store file holds
C7_LoadNeverRaises ==
    cmd \in {"init", "new"} => pc # "crashed"

\* C8: update_data sets exactly the given keys, leaves every other key as it
\* was, and writes the whole record: a session manager constructed afterwards
\* loads the same record
C8_UpdateData ==
    [][\A kwargs \in Kwargs :
         UpdateData(kwargs) =>
            /\ HoldsAll(session_data', kwargs)
            /\ DictKeys(session_data') = DictKeys(session_data) \cup DictKeys(kwargs)
            /\ \A i \in 1..Len(session_data) :
                  session_data[i][1] \notin DictKeys(kwargs)
                     => session_data'[i] = session_data[i]
            /\ ~load_session(flow, file'[flow]).raised
            /\ load_session(flow, file'[flow]).data = session_data']_vars

C8_Witness ==
    /\ cmd = "update_data" /\ flow = "generation"
    /\ Get(session_data, "sdk_name", "") = "b"
    /\ Get(session_data, "sdk_language", "") = "a"
    /\ Get(session_data, "target_framework", "") = "b"
    /\ Get(session_data, "reference_links", <<>>) = <<"a", "b">>
    /\ Stored(flow) = session_data

\* C9: saving a record that was loaded from a store written by save, without
\* changing it, leaves the store file as it was, and loading again gives the
\* same record
C9_ResumeIdempotent ==
    [][(SaveSession /\ written[flow] /\ session_data = Stored(flow))
          => (file' = file /\ load_session(flow, file'[flow]).data = session_data)]_vars

C9_Witness ==
    /\ cmd = "save_after_load" /\ written[flow] /\ file[flow] = file0
    /\ Has(session_data, "note") /\ Get(session_data, "sdk_name", "") = "b"
    /\ Stored(flow) = session_data

\* C10: reset removes the store file of its flow when there is one and ends
\* without error when there is none; the next load gives the default record
C10_ResetDeletes ==
    [][\A f \in Flows :
         Reset(f) => /\ pc' = "reset"
                     /\ ~Exists(file'[f])
                     /\ \A g \in Flows \ {f} : file'[g] = file[g]
                     /\ load_session(f, file'[f]) = [raised |-> FALSE, data |-> DefaultData(f)]]_vars

C10_Witness ==
    /\ cmd = "reset" /\ pc = "reset" /\ file0.kind = "object" /\ AnyValue(file0.doc)
    /\ ~Exists(file[flow])

\* C11: status and analyze status leave both store files exactly as they
\* are: no file is created, changed or removed, with or without a store file
C11_StatusDoesNotMutate ==
    [][\A f \in Flows : Status(f) => (file' = file /\ Exists(file'[f]) = Exists(file[f]))]_vars

C11_Witness ==
    /\ cmd = "status" /\ pc = "no_session" /\ file0 = Absent /\ ~Exists(file[flow])

\* the required keys of flow f that the store of flow f holds no value for
EmptyRequired(f) ==
    {k \in {required_fields(f)[i] : i \in 1..Len(required_fields(f))} :
        ~Has(Stored(f), k) \/ Get(Stored(f), k, "") = ""}

\* C12: generate (and analyze generate), run on a store that loads and lacks a
\* value for a required key, reports exactly the required keys without a value,
\* renders nothing, writes no output file whatever --format and --output are,
\* leaves the store files unchanged and returns normally
C12_GenerateReportsMissing ==
    [][\A f \in Flows :
         (cmd' = "generate" /\ flow' = f
            /\ \E format \in Formats, output \in Outputs : Generate(f, format, output))
          => LET loaded == load_session(f, file[f])
                 empty == {k \in {required_fields(f)[i] : i \in 1..Len(required_fields(f))} :
                              ~Has(loaded.data, k) \/ Get(loaded.data, k, "") = ""}
             IN  (~loaded.raised /\ empty # {})
                  => /\ pc' = "missing"
                     /\ {missing'[i] : i \in 1..Len(missing')} = empty
                     /\ Len(missing') = Cardinality(empty)
                     /\ ~wrote'
                     /\ file' = file]_vars

C12_Witness ==
    /\ cmd = "generate" /\ pc = "missing" /\ flow = "generation"
    /\ missing = <<"sdk_language", "target_framework">>
    /\ Exists(file0) /\ file[flow] = file0 /\ ~wrote

\* C13: when an init run is DONE, the store file loads and holds a non-empty
\* value for every key generate of that flow requires, whatever the store held
\* before and whatever path the wizard took; as long as that record is the
\* stored one, status shows the session and generate renders
C13_DoneRecordIsComplete ==
    /\ []((cmd = "init" /\ pc = "done") =>
            /\ written[flow]
            /\ ~load_session(flow, file[flow]).raised
            /\ EmptyRequired(flow) = {}
            /\ AnyValue(Stored(flow)))
    /\ [][\A f \in Flows :
            /\ (written[f] /\ cmd' = "status" /\ flow' = f /\ Status(f)) => pc' = "status"
            /\ (written[f] /\ cmd' = "generate" /\ flow' = f
                  /\ \E format \in Formats, output \in Outputs : Generate(f, format, output))
                 => (pc' = "generated" /\ missing' = <<>>)]_vars

C13_Witness ==
    /\ cmd = "generate" /\ pc = "generated" /\ flow = "analysis" /\ written[flow]
    /\ Get(session_data, "input_method", "") = "paste"
    /\ Get(session_data, "existing_doc_content", "") = "text"
    /\ Len(Get(session_data, "reference_links", <<>>)) = 0

\* C14: when the session record holds a non-empty reference list and the
\* first line given to the reference collector is blank, the collector goes on
\* with the list of the record, same entries in the same order, and that list
\* is the one it returns
C14_KeepExistingReferences ==
    [][/\ \A line \in {"", " "} :
            (RefLine(line) /\ Len(reference_links) = 0
               /\ Len(Get(session_data, "reference_links", <<>>)) > 0)
             => LET existing_refs == Get(session_data, "reference_links", <<>>) IN
                IF Len(existing_refs) > 1
                THEN pc' = "style" /\ reference_links' = existing_refs
                ELSE /\ signal' \in {"value", "back"}
                     /\ signal' = "value" =>
                           (/\ current_q' = current_q + 1
                            /\ Get(answers', "reference_links", <<>>) = existing_refs)
       /\ \A line \in StyleLines :
            (StyleLine(line) /\ signal' = "value")
             => Get(answers', "reference_links", <<>>) = reference_links]_vars

C14_Witness ==
    /\ Running /\ flow = "generation" /\ current_q = 4 /\ signal = "value"
    /\ Get(session_data, "reference_links", <<>>) = <<"a", "b">>
    /\ Get(answers, "reference_links", <<>>) = <<"a", "b">>

\* C15: when the session record holds references and the user entered new
\* reference lines before the blank line, the list the collector goes on with
\* is the list of the record followed by the new lines
C15_NewReferencesAreAdded ==
    [][\A line \in {"", " "} :
         (RefLine(line) /\ Len(reference_links) > 0
            /\ Len(Get(session_data, "reference_links", <<>>)) > 0)
          => LET added == Get(session_data, "reference_links", <<>>) \o reference_links IN
             /\ pc' = "style" => reference_links' = added
             /\ signal' = "value" => Get(answers', "reference_links", <<>>) = added]_vars

C17_StyleDerivation ==
    [][/\ \A line \in {"", " "} :
            RefLine(line) =>
               LET existing_refs == Get(session_data, "reference_links", <<>>)
                   links == IF Len(reference_links) = 0 THEN existing_refs
                            ELSE reference_links
               IN  /\ Len(links) = 0 =>
                         (signal' = "value" /\ Get(answers', "style_preference", "") = "none")
                   /\ Len(links) = 1 =>
                         (signal' = "value" /\ Get(answers', "style_preference", "") = links[1])
                   /\ Len(links) > 1 => pc' = "style"
       /\ \A line \in StyleLines \ {ABORT} :
            LET style_choice == Prompt(line, Get(session_data, "style_preference", "blend"))
                numbers == {<<"1", 1>>, <<"2", 2>>, <<"3", 3>>}
            IN  (StyleLine(line) /\ Lower(style_choice) \notin {"back", "cancel"})
                 => /\ signal' = "value"
                    /\ Get(answers', "style_preference", "") =
                         IF \E n \in numbers : n[1] = style_choice /\ n[2] <= Len(reference_links)
                         THEN reference_links[(CHOOSE n \in numbers : n[1] = style_choice)[2]]
                         ELSE "blend"]_vars

\* C18: back at the style prompt starts the reference collection again: the
\* cursor stays on the reference step, the collector asks for reference lines
\* with an empty list, and the answers are as they were
C18_StyleBackReeditsReferences ==
    [][\A line \in StyleLines \ {ABORT} :
         (StyleLine(line)
            /\ Lower(Prompt(line, Get(session_data, "style_preference", "blend"))) = "back")
          => /\ current_q' = current_q
             /\ pc' = "prompt"
             /\ reference_links' = <<>>
             /\ answers' = answers]_vars

\* the entry at the focus prompt: the line, or the prompt's default for Enter
Selection(line) ==
    Prompt(line, IF Len(Get(session_data, "improvement_focus", <<>>)) = 0 THEN "11" ELSE "")

\* every token of the entry s is an integer
AllInts(s) == \A i \in 1..Len(Split(s)) : IsInt(Split(s)[i])

\* C19: an entry of integers at the focus prompt that holds 11 at any position
\* selects exactly the ten concrete options, in table order, whatever other
\* numbers stand before or after the 11
C19_AllShortCircuit ==
    [][\A line \in FocusLines \ {ABORT} :
         (FocusLine(line) /\ AllInts(Selection(line))
            /\ \E i \in 1..Len(Split(Selection(line))) : Split(Selection(line))[i] = "11")
          => /\ signal' = "value"
             /\ current_q' = current_q + 1
             /\ Len(Get(answers', "improvement_focus", <<>>)) = 10
             /\ \A i \in 1..10 : Get(answers', "improvement_focus", <<>>)[i] = focus_options[i]]_vars

C19_Witness ==
    /\ Running /\ flow = "analysis" /\ current_q = 4 /\ signal = "value"
    /\ Len(Get(answers, "improvement_focus", <<>>)) = 10
    /\ Get(answers, "improvement_focus", <<>>)[10] = "Completeness & Accuracy"
    /\ Len(Get(session_data, "improvement_focus", <<>>)) = 2

\* C20: an entry of numbers from 1 to 10 at the focus prompt selects the
\* options with these numbers, listed in table order and each once, whatever
\* the order of the numbers in the entry and however often a number is given
C20_SelectionInTableOrder ==
    [][\A line \in FocusLines \ {ABORT} :
         LET tokens == Split(Selection(line))
             chosen == {IntOf(tokens[i]) : i \in 1..Len(tokens)}
         IN  (FocusLine(line) /\ AllInts(Selection(line)) /\ chosen \subseteq 1..10)
              => /\ signal' = "value"
                 /\ Get(answers', "improvement_focus", <<>>) =
                       SelectSeq(focus_options,
                                 LAMBDA o : \E n \in chosen : focus_options[n] = o)]_vars

\* C21: an entry at the focus prompt that holds a token that is no integer, or
\* an integer outside 1..11, or that selects nothing, is rejected as a whole:
\* the collector returns BACK and the answers stay as they were
C21_InvalidEntryRejected ==
    [][\A line \in FocusLines \ {ABORT} :
         LET tokens == Split(Selection(line)) IN
         (FocusLine(line) /\ Lower(Selection(line)) \notin {"back", "cancel"}
            /\ \E i \in 1..Len(tokens) :
                  ~IsInt(tokens[i]) \/ IntOf(tokens[i]) \notin 1..11)
          => (signal' = "back" /\ answers' = answers)]_vars

\* C22: after an entry at the focus prompt that holds a token that is no
\* integer, or that selects nothing, the focus step is prompted again: the
\* cursor stays where it is
C22_MalformedEntryReprompts ==
    [][\A line \in FocusLines \ {ABORT} :
         LET tokens == Split(Selection(line)) IN
         (FocusLine(line) /\ Lower(Selection(line)) \notin {"back", "cancel"}
            /\ (~AllInts(Selection(line)) \/ Len(FocusLoop(tokens, <<>>)) = 0))
          => (current_q' = current_q /\ pc' = "prompt" /\ answers' = answers)]_vars

\* C23: in file mode a path whose file is not found or cannot be read makes
\* the collector return BACK: nothing is added to the answers, the cursor stays
\* on the document step and the collector starts again at the input mode prompt
C23_ReadErrorRestartsCollector ==
    [][\A line \in PathLines \ {ABORT} :
         LET file_path == Prompt(line, Get(session_data, "existing_doc_path", "")) IN
         (DocPath(line) /\ Lower(file_path) \notin {"back", "cancel"}
            /\ ReadFile(file_path).error # "")
          => /\ signal' = "back"
             /\ answers' = answers
             /\ current_q' = current_q
             /\ questions(flow)[current_q' + 1].prompt = "document_input"
             /\ pc' = "prompt"
             /\ input_method' = ""]_vars

C23_Witness ==
    /\ Running /\ flow = "analysis" /\ pc = "prompt" /\ current_q = 0 /\ signal = "back"
    /\ input_method = ""
    /\ Get(session_data, "existing_doc_path", "") = ""
    /\ Get(answers, "existing_doc_path", "") = "doc.md"

\* C24: the URL prompt is reached only from the confirmation, and never after
\* the answer n, which gives BACK; a URL with a scheme and a host is accepted
\* with content the tagged URL, path the URL and input method url; a URL
\* without a scheme or without a host gives BACK and the answers stay as they were
C24_UrlMode ==
    [][/\ pc' = "doc_url" => (pc = "doc_confirm" /\ \E line \in {"", "y"} : DocConfirm(line))
       /\ DocConfirm("n") => (signal' = "back" /\ answers' = answers)
       /\ \A line \in UrlLines \ {ABORT} :
            LET url == Prompt(line, Get(session_data, "existing_doc_path", "")) IN
            (DocUrl(line) /\ Lower(url) \notin {"back", "cancel"})
             => IF url \in {"http://h/p"}
                THEN /\ signal' = "value"
                     /\ current_q' = current_q + 1
                     /\ Get(answers', "existing_doc_content", "") = "URL_TO_EXTRACT: http://h/p"
                     /\ Get(answers', "existing_doc_path", "") = url
                     /\ Get(answers', "input_method", "") = "url"
                ELSE signal' = "back" /\ answers' = answers]_vars

C24_Witness ==
    /\ Running /\ flow = "analysis" /\ current_q = 1 /\ signal = "value"
    /\ Get(session_data, "existing_doc_path", "") = ""
    /\ Get(answers, "input_method", "") = "url"
    /\ Get(answers, "existing_doc_path", "") = "http://h/p"
    /\ Get(answers, "existing_doc_content", "") = "URL_TO_EXTRACT: http://h/p"

\* C25: content that is empty or all white space, read from a file or
\* pasted, makes the document collector return BACK with the answers as they
\* were; existing_doc_content in the answers of an init run, and in the record
\* a finished analysis run stored, is never blank
C25_ContentNeverBlank ==
    /\ [](cmd = "init" =>
            /\ Has(answers, "existing_doc_content")
                  => Strip(Get(answers, "existing_doc_content", "")) # ""
            /\ (pc = "done" /\ flow = "analysis")
                  => Strip(Get(Stored(flow), "existing_doc_content", "")) # "")
    /\ [][/\ \A line \in PathLines \ {ABORT} :
               LET file_path == Prompt(line, Get(session_data, "existing_doc_path", "")) IN
               (DocPath(line) /\ Lower(file_path) \notin {"back", "cancel"}
                  /\ ReadFile(file_path).error = ""
                  /\ ReadFile(file_path).content \in {"", " "})
                => (signal' = "back" /\ answers' = answers)
          /\ \A text \in {"", " "} :
               DocPaste(text) => (signal' = "back" /\ answers' = answers)]_vars

C25_Witness ==
    /\ cmd = "init" /\ pc = "done" /\ flow = "analysis"
    /\ Get(answers, "input_method", "") = "file"
    /\ Get(answers, "existing_doc_path", "") = "doc.md"
    /\ Get(Stored(flow), "existing_doc_content", "") = "text"
    /\ file0 = Absent

\* C26: the line cancel, in any letter case, at any prompt of either wizard
\* ends the wizard as cancelled, without a result
C26_CancelAtEveryPrompt ==
    [][\A line \in {"cancel", "CANCEL"} :
         (\/ PlainStep(line) \/ RefLine(line) \/ StyleLine(line) \/ FocusLine(line)
          \/ DocMode(line) \/ DocPath(line) \/ DocConfirm(line) \/ DocUrl(line)
          \/ DocPaste(line))
          => (pc' = "cancelled" /\ result' = None)]_vars

\* the store of the running init held, before the run, a record with every
\* required field of the flow answered
CompleteBefore ==
    /\ file0.kind = "object"
    /\ Missing(flow, load_session(flow, file0).data) = <<>>

\* C27 (as claimed): a 'continue' run of init over a complete generation record
\* in which every prompt is answered with Enter ends in DONE with the stored
\* record equal, key by key, to the record stored before the run
C27_DefaultsRoundTrip ==
    (cmd = "init" /\ pc = "done" /\ flow = "generation" /\ all_default /\ CompleteBefore)
        => /\ HoldsAll(Stored(flow), file0.doc)
           /\ HoldsAll(file0.doc, Stored(flow))

\* the running init showed the existing-session panel and 'reset' was chosen:
\* the panel needs a store file with some answered value, and only the reset
\* branch leaves the session manager with a record of empty values
ResetChosen ==
    /\ cmd = "init" /\ pc \in InWizard \cup {"cancelled", "aborted"}
    /\ Exists(file0) /\ AnyValue(load_session(flow, file0).data)
    /\ ~AnyValue(session_data)

\* C28 (as claimed): once 'reset' is chosen at init's existing-session prompt
\* the store holds none of the previous answers, during the wizard that
\* follows and after that wizard is cancelled
C28_ResetChoiceClearsStore ==
    ResetChosen => ~AnyValue(Stored(flow))

\* process p takes a step of a command of flow f
StepOf(p, f) ==
    \/ ProcInit(p, f)
    \/ ProcReset(p, f)
    \/ \E c \in {"status", "generate"} : ProcRead(p, c, f)
    \/ /\ proc[p].flow = f
       /\ \/ \E c \in Choices : ProcChoose(p, c)
          \/ ProcCancel(p)
          \/ \E n \in 1..2 : ProcDone(p, n)
          \/ ProcWrite(p)

C30_GetDataIsolated ==
    [][((\E kv \in Assigned : SetKey(kv[1], kv[2]))
        \/ (\E key \in ListKeys : AppendTo(key, "c")))
          => session_data' = session_data]_vars

\* the elements of the list s
Range(s) == {s[i] : i \in 1..Len(s)}

\* the reference step of the running wizard is the step being asked
AtReferenceStep == Running /\ question.prompt = "reference_collection"

\* C31: 'back' at the question after the reference step puts the cursor on the
\* reference step with the answers as they were, and the collector starts
\* again with an empty list of lines; a list of more than one link is followed
\* by the style prompt; when the step is left with a value, reference_links
\* and style_preference are both written, from the lines and the style of this
\* pass; no other step at the reference question changes either of the two
C31_BackReentersReferenceStep ==
    [][/\ (Running /\ flow = "generation" /\ current_q = 4 /\ signal' = "back")
            => /\ pc' = "prompt" /\ current_q' = 3
               /\ reference_links' = <<>>
               /\ answers' = answers
       /\ (AtReferenceStep /\ signal' = "value")
            => /\ current_q' = current_q + 1
               /\ Has(answers', "reference_links") /\ Has(answers', "style_preference")
               /\ LET links == Get(answers', "reference_links", <<>>)
                      style == Get(answers', "style_preference", "")
                      existing_refs == Get(session_data, "reference_links", <<>>)
                  IN  IF pc = "style"
                      THEN /\ links = reference_links /\ Len(links) > 1
                           /\ style \in {"blend"} \cup Range(links)
                      ELSE /\ links = (IF Len(reference_links) = 0 THEN existing_refs
                                       ELSE reference_links)
                           /\ Len(links) <= 1
                           /\ style = (IF Len(links) = 1 THEN links[1] ELSE "none")
       /\ (AtReferenceStep /\ signal' # "value" /\ pc' \in InWizard)
            => \A k \in {"reference_links", "style_preference"} :
                  /\ Has(answers', k) = Has(answers, k)
                  /\ Has(answers, k) => answers'[Index(answers', k)][2]
                                          = answers[Index(answers, k)][2]]_vars

\* the reference step runs for the second time in this run: its first answer
\* is in the answers, the new lines differ from it, and the style prompt is up
C31_Witness ==
    /\ Running /\ flow = "generation" /\ current_q = 3 /\ pc = "style"
    /\ Has(answers, "reference_links") /\ Has(answers, "style_preference")
    /\ Get(answers, "reference_links", <<>>) # reference_links

\* C32 (as claimed): when the other process has finished an init of the same
\* flow, and no reset came between, the save of an init leaves the store file
\* holding the full record this process saved, and the process ends normally
C32_LastSaveWins ==
    [][\A p \in Procs, q \in Procs :
         (/\ p # q
          /\ proc[p].cmd = "init" /\ ~proc[p].unlinked
          /\ proc[q].cmd = "init" /\ proc[q].flow = proc[p].flow /\ proc[q].at = "exited"
          /\ ProcWrite(p))
           => /\ file'[proc[p].flow] = save_session(proc[p].data)
              /\ proc'[p].at = "exited"]_vars

\* C33: while an init runs or has ended, the cursor is between 0 and the
\* number of questions; a prompt is up only while the cursor is below that
\* number; and the questionnaire has returned a mapping only with the cursor
\* equal to it
C33_CursorInRange ==
    cmd = "init" =>
      /\ current_q \in 0..Len(questions(flow))
      /\ pc \in InWizard => current_q < Len(questions(flow))
      /\ ~result.none => (current_q = Len(questions(flow)) /\ pc = "done")
      /\ pc = "done" => (~result.none /\ current_q = Len(questions(flow)))

\* the analysis wizard returned its mapping with the cursor behind the last question
C33_Witness ==
    /\ cmd = "init" /\ flow = "analysis" /\ pc = "done"
    /\ current_q = 5 /\ result = Some(answers)
    /\ Get(answers, "input_method", "") = "url"

\* C34: a store file that exists stops existing only in a step of the reset
\* command of its flow; no step of init, generate or status removes one
C34_OnlyResetRemoves ==
    [][\A f \in Flows :
         (Exists(file[f]) /\ ~Exists(file'[f])) => (cmd' = "reset" /\ flow' = f)]_vars

\* an init whose existing-session prompt was answered with reset was cancelled
\* in its wizard, and the store file is still there
C34_Witness ==
    /\ ResetChosen /\ pc = "cancelled" /\ current_q >= 1
    /\ Exists(file[flow]) /\ file[flow] = file0

\* reference_links and style_preference are both in the mapping d or both not,
\* and when they are in it the style fits the list
RefsAndStyleFit(d) ==
    /\ Has(d, "reference_links") <=> Has(d, "style_preference")
    /\ Has(d, "reference_links") =>
         LET links == Get(d, "reference_links", <<>>)
             style == Get(d, "style_preference", "")
         IN  /\ style = "none" <=> Len(links) = 0
             /\ Len(links) = 1 => style = links[1]
             /\ Len(links) > 1 => style \in {"blend"} \cup Range(links)

\* C35 (as claimed): while a wizard runs, and when it is DONE, the answers
\* hold reference_links and style_preference together or neither; the style
\* is none exactly when the list is empty, the single link when there is one,
\* and blend or one of the links otherwise; at DONE the stored record is the same
C35_RefsAndStyleConsistent ==
    /\ Running => RefsAndStyleFit(answers)
    /\ (cmd = "init" /\ pc = "done")
         => (RefsAndStyleFit(answers) /\ RefsAndStyleFit(Stored(flow)))

\* C36 (as claimed, the part about single steps): in a 'continue' run of
\* analyze init over a complete record in which every prompt so far was
\* answered with Enter, one more Enter never ends the wizard short of DONE and
\* never moves the cursor to an earlier step
C36_DefaultsNeverGoBack ==
    [][(/\ Running /\ flow = "analysis" /\ CompleteBefore
        /\ all_default /\ all_default')
         => (pc' \in InWizard \cup {"done"} /\ current_q' >= current_q)]_vars

\* the entry of key k is the same in the answers before and after a step
EntryKept(k) ==
    /\ Has(answers', k) = Has(answers, k)
    /\ Has(answers, k) => answers'[Index(answers', k)][2] = answers[Index(answers, k)][2]

\* C37: a step that signals back leaves the answers, the session record and
\* the store as they are; a step that accepts no value leaves the answers as
\* they are; and a step that accepts a value changes only the entries of the
\* question asked, so an entry keeps its value until its own question is
\* answered again
C37_BackKeepsAnswers ==
    [][/\ (Running /\ signal' = "back")
            => /\ answers' = answers
               /\ UNCHANGED <<file, session_data, result, written>>
       /\ (Running /\ pc' \in InWizard /\ signal' # "value") => answers' = answers
       /\ (Running /\ signal' = "value")
            => \A k \in DictKeys(answers) \ StepKeys(question) : EntryKept(k)]_vars

\* the analysis wizard is back at its third step with the answers of the
\* fourth and the first still in the mapping
C37_Witness ==
    /\ Running /\ flow = "analysis" /\ signal = "back" /\ current_q = 2
    /\ Has(answers, "improvement_focus") /\ Has(answers, "existing_doc_content")
    /\ pc = "prompt"

\* the keys of the regular questions of both flows
PlainKeys == {"sdk_name", "sdk_language", "sdk_repository", "target_framework"}

\* s is back or cancel in some letter case
IsToken(s) == Lower(s) \in {"back", "cancel"}

\* C38 (as claimed): no value a regular question stored in the answers, and
\* no entry of the answers' reference_links, is back or cancel in any letter case
C38_TokensNeverStored ==
    (cmd = "init" /\ pc \in InWizard \cup {"done"}) =>
      /\ \A k \in PlainKeys : Has(answers, k) => ~IsToken(Get(answers, k, ""))
      /\ \A link \in Range(Get(answers, "reference_links", <<>>)) : ~IsToken(link)

\* C39: fed the same existing reference list, the same stored style preference
\* and the same input lines, the generation flow's reference collector and the
\* analysis flow's reference collector return the same thing: BACK, CANCEL,
\* or the same links with the same style.
C39_CollectorsAgree ==
    (both.generation.at = "returned" /\ both.analysis.at = "returned")
       => both.generation.ret = both.analysis.ret
====
